---- MODULE Spec2Model ----
(***************************************************************************)
(* Model of the appc-pubsub client (src/lib/index.js, the axios revision,  *)
(* lines 278-855): construction, config fetch, publish/update validation,  *)
(* and the per-event delivery and retry engine (_send / _retry).           *)
(*                                                                         *)
(* Time is Date.now() in milliseconds.  A JavaScript value is a record     *)
(* [t, s, n, props]: t is the kind of value, s the characters of a string, *)
(* n the number (or the byte length of a string), props the own            *)
(* properties of an object as a set of <<key, value>> pairs.               *)
(***************************************************************************)
EXTENDS Integers, Sequences, FiniteSets, TLC

\* ------------------------------------------------------------------ bounds
MaxCalls   == 2   \* publish/update calls accepted for delivery
RetryLimit == 2   \* opts.retryLimit chosen at construction
MaxClock   == 2   \* Date.now() starts at 1; calls are made up to this value
MaxThrows  == 1   \* times a 'response' listener raises an error
MaxFetches == 1   \* explicit fetchConfig() calls after construction
MaxInputCalls == 1 \* calls accepted where arguments, config answers or fairness vary
MaxTopicSegs == 2  \* dot-separated segments of a topic pattern
MaxNameSegs  == 3  \* dot-separated segments of an event name

\* --------------------------------------------------------------- JS values
Undef       == [t |-> "undefined", s |-> "", n |-> 0, props |-> {}]
Null        == [t |-> "null", s |-> "", n |-> 0, props |-> {}]
Num(k)      == [t |-> "number", s |-> "", n |-> k, props |-> {}]
Str(c, len) == [t |-> "string", s |-> c, n |-> len, props |-> {}]
Arr         == [t |-> "array", s |-> "", n |-> 0, props |-> {}]
Obj(p)      == [t |-> "object", s |-> "", n |-> 0, props |-> p]

\* typeof v
TypeOf(v) ==
  CASE v.t = "undefined" -> "undefined"
    [] v.t = "number"    -> "number"
    [] v.t = "string"    -> "string"
    [] OTHER             -> "object"      \* null, arrays and objects

\* Array.isArray(v)
IsArray(v) == v.t = "array"

\* the truthiness of v, as tested by !v and v || w
Truthy(v) ==
  CASE v.t = "undefined" -> FALSE
    [] v.t = "null"      -> FALSE
    [] v.t = "number"    -> v.n # 0
    [] v.t = "string"    -> v.n > 0
    [] OTHER             -> TRUE

\* Buffer.byteLength(v) of a string
ByteLength(v) == v.n

\* a default parameter value applies to undefined only
Default(v, d) == IF v.t = "undefined" THEN d ELSE v

Max(a, b) == IF a >= b THEN a ELSE b
Min(a, b) == IF a <= b THEN a ELSE b

RECURSIVE Pow2(_)
Pow2(k) == IF k <= 0 THEN 1 ELSE 2 * Pow2(k - 1)

\* Math.max and arithmetic on undefined give NaN; NaN is written -1 here
\* (it compares below every real delay, and setTimeout turns it into 1ms)
NaN == -1

\* ---------------------------------------------------------------- inputs
EventArgs  == { Undef, Str("", 0), Str("a", 1), Str("n255", 255), Str("n256", 256) }
IdArgs     == { Undef, Str("", 0), Str("a", 1) }
DataArgs   == { Undef, Null, Num(1), Arr, Obj({}), Obj({<<"password", "p">>}) }
OptionArgs == { Undef, Null, Num(1), Arr, Obj({}) }

\* HTTP outcomes of one request: a status, or NetErr for a transport error
\* (timeout, DNS, connection refused), for which e.response is absent
NetErr     == 0
Outcomes   == { 200, 400, 401, 403, 404, 500, NetErr }

\* --------------------------------------------------------------- sanitizer
\* /^(password|creditcard)/.test(key), on the keys the inputs use
SensitiveKey(k) == k \in { "password", "password_salt", "creditcard" }

\* JSON.parse(JSON.stringify(data || {})): a structural copy
CloneData(data) == IF Truthy(data) THEN Obj(data.props) ELSE Obj({})

\* _sanitize(obj, []) on a flat object of string values
Sanitize(obj) ==
  Obj({ <<p[1], IF SensitiveKey(p[1]) THEN "[HIDDEN]" ELSE p[2]>> : p \in obj.props })

\* ------------------------------------------------------------ object graphs
\* the caller's data as objects on a heap: an address is a sequence of strings,
\* an object maps its keys to strings or to the addresses of other objects
MaxObjects == 2
DataStr(s) == [kind |-> "str", s |-> s, a |-> << >>]
DataRef(a) == [kind |-> "ref", s |-> "", a |-> a]
Hidden     == DataStr("[HIDDEN]")
Circular   == DataStr("[Circular]")
NoKeys     == [k \in {} |-> Hidden]
NoObjects  == [a \in {} |-> NoKeys]

DataAddr(i) == << "data", ToString(i) >>
DataAddrs   == { DataAddr(i) : i \in 1..MaxObjects }
DataRoot    == DataAddr(1)
CopyRoot    == << "copy" >>
NoRoot      == << >>

\* the objects the caller may hold at DataAddr(i): at most one sensitive key,
\* whose value is a string or an object, and a key 'child'; an object refers
\* to the next object or back to the first
RefTargets(i) == { DataRoot } \cup (IF i < MaxObjects THEN { DataAddr(i + 1) } ELSE {})
SensitiveFields(i) ==
  { NoKeys, "password" :> DataStr("p"), "creditcard" :> DataStr("c") }
  \cup { "password" :> DataRef(t) : t \in RefTargets(i) }
PlainFields(i) ==
  { NoKeys, "child" :> DataStr("n") } \cup { "child" :> DataRef(t) : t \in RefTargets(i) }
ObjectsAt(i) == { f @@ g : f \in SensitiveFields(i), g \in PlainFields(i) }
DataHeaps ==
  { h \in [DataAddrs -> UNION { ObjectsAt(i) : i \in 1..MaxObjects }] :
      \A i \in 1..MaxObjects : h[DataAddr(i)] \in ObjectsAt(i) }

\* Object.keys(obj): the keys of an object in the order they are visited
KeyOrder == << "password", "creditcard", "child" >>
RefKeys(o) == { k \in DOMAIN o : o[k].kind = "ref" }
Children(H, a) == { H[a][k].a : k \in RefKeys(H[a]) }

\* the addresses reachable from the addresses of from
RECURSIVE Reach(_, _)
Reach(H, from) ==
  LET more == from \cup UNION { Children(H, a) : a \in from }
  IN IF more = from THEN from ELSE Reach(H, more)

\* JSON.stringify(data) throws on a circular structure
Cyclic(H, r) == \E a \in Reach(H, { r }) : a \in Reach(H, Children(H, a))

\* the key paths that lead from a to an object, and where a path leads
RECURSIVE PathsFrom(_, _)
PathsFrom(H, a) ==
  { << >> } \cup UNION { { << k >> \o q : q \in PathsFrom(H, H[a][k].a) } : k \in RefKeys(H[a]) }
RECURSIVE Target(_, _, _)
Target(H, a, p) == IF p = << >> THEN a ELSE Target(H, H[a][Head(p)].a, Tail(p))

\* JSON.parse(JSON.stringify(data)): a new object for every path from the root
CopyOf(H, r) ==
  [ q \in { CopyRoot \o p : p \in PathsFrom(H, r) } |->
      LET o == H[Target(H, r, Tail(q))]
      IN [ k \in DOMAIN o |-> IF o[k].kind = "ref" THEN DataRef(q \o << k >>) ELSE o[k] ] ]

\* variant: the data is handed on as it is
NotCloned(H, r) == [heap |-> H, root |-> r]

\* data = JSON.parse(JSON.stringify(data || {}))
Cloned(H, r) == [heap |-> CopyOf(H, r) @@ H, root |-> CopyRoot]

\* Object.keys(obj).forEach(...) of _sanitize(obj, seen) from the i-th key on,
\* obj being the object at a; st holds the heap and the seen list
RECURSIVE SanitizeKeys(_, _, _)
SanitizeKeys(st, a, i) ==
  IF i > Len(KeyOrder) THEN st
  ELSE LET k == KeyOrder[i]
       IN IF k \notin DOMAIN st.heap[a] THEN SanitizeKeys(st, a, i + 1)
          ELSE IF SensitiveKey(k)
               THEN SanitizeKeys([st EXCEPT !.heap[a][k] = Hidden], a, i + 1)
          ELSE IF st.heap[a][k].kind # "ref" THEN SanitizeKeys(st, a, i + 1)
          ELSE IF st.heap[a][k].a \in st.seen
               THEN SanitizeKeys([st EXCEPT !.heap[a][k] = Circular], a, i + 1)
          ELSE LET value == st.heap[a][k].a
                   inner == SanitizeKeys([st EXCEPT !.seen = @ \cup { value }], value, 1)
               IN \* obj[key] = value, value being the object _sanitize returned
                  SanitizeKeys([inner EXCEPT !.heap[a][k] = DataRef(value)], a, i + 1)

\* _sanitize(data, [])
SanitizeData(H, r) == SanitizeKeys([heap |-> H, seen |-> {}], r, 1).heap

\* publish(event, data) on the caller's object at r: the heap afterwards and
\* the object handed to _send as data, or the error of a circular structure
PublishedData(H, r) ==
  IF Cyclic(H, r) THEN [threw |-> TRUE, heap |-> H, root |-> NoRoot]
  ELSE [ threw |-> FALSE,
         heap  |-> SanitizeData(Cloned(H, r).heap, Cloned(H, r).root),
         root  |-> Cloned(H, r).root ]

\* a publish of the caller's data: the heap before the call and now, and the
\* object handed to _send
DataCall(h) == [done |-> FALSE, threw |-> FALSE, before |-> h, heap |-> h, root |-> NoRoot]
NoPub == DataCall(NoObjects)

\* ----------------------------------------------- batching (batching revision)
\* opts.batching as the caller gives it: left out or false, true, or an
\* object with a maxWait in milliseconds
MaxStaged == 3
BatchingOff     == [kind |-> "off", maxWait |-> 0]
BatchingOn      == [kind |-> "true", maxWait |-> 0]
BatchingWith(w) == [kind |-> "object", maxWait |-> w]
CallerWaits     == { 100, 2000 }
BatchingOptions == { BatchingOff, BatchingOn } \cup { BatchingWith(w) : w \in CallerWaits }

\* Object.assign(opts.batching || {}, { maxWait: 1000 }).maxWait: the source
\* object is assigned over whatever the caller gave
AssignedMaxWait(option) == 1000

\* this.batching, this.queue and this.batchTimeoutHandler after construction,
\* and the events handed to _send so far; timer is 0 for no handler, else the
\* delay the timeout was set with; pending counts the timeouts set and not
\* yet fired
Batch(option) ==
  [ option |-> option, maxWait |-> AssignedMaxWait(option),
    queue |-> << >>, timer |-> 0, pending |-> 0, sent |-> << >> ]

\* variant: every publish sets a flush timeout
TimerAlways(b) == TRUE

\* if (!this.batchTimeoutHandler)
TimerNeeded(b) == b.timer = 0
NoBatch == Batch(BatchingOff)
StagedNames == { "a", "b" }

\* ------------------------------------------------------------- construction
\* the options of new PubSubClient(opts): which of disabled, key, secret are set
CtorOpts == [disabled : BOOLEAN, key : BOOLEAN, secret : BOOLEAN]

\* variant: key and secret are required before disabled is looked at
CtorResultKeyFirst(o) ==
  IF ~o.key THEN "missing key"
  ELSE IF ~o.secret THEN "missing secret"
  ELSE IF o.disabled THEN "disabled"
  ELSE "ok"

\* PubSubClient(opts): "disabled" returns early, a missing key or secret throws
CtorResult(o) ==
  IF o.disabled THEN "disabled"
  ELSE IF ~o.key THEN "missing key"
  ELSE IF ~o.secret THEN "missing secret"
  ELSE "ok"

\* this.config: undefined before any fetchConfig, {} while fetching, else fetched
\* a property that is not there reads as undefined
Absent == "undefined"

\* a config object: what the server sent (can_consume, auth_type, url,
\* auth_token, events) and what fetchConfig derives (topics, auth_user, auth_pass)
ConfigData(state, can_consume, auth_type, url, auth_token, events) ==
  [ state |-> state, can_consume |-> can_consume, auth_type |-> auth_type,
    url |-> url, auth_token |-> auth_token, events |-> events,
    topics |-> << >>, auth_user |-> Absent, auth_pass |-> Absent ]

NoConfig    == ConfigData("undefined", FALSE, Absent, Absent, Absent, << >>)
\* variant: the config held during a fetch lets every request through
EmptyConfigOpen == ConfigData("empty", TRUE, Absent, Absent, Absent, << >>)
EmptyConfig == ConfigData("empty", FALSE, Absent, Absent, Absent, << >>)

\* resp.data[resp.data.key] of a 200 answer to the config request
Malformed    == ConfigData("malformed", FALSE, Absent, Absent, Absent, << >>)
UrlWithUser  == "http://un:pw@host"
UrlPlain     == "http://host"
UrlInvalid   == "/hook"
EventsMap    == << << "a", "b" >>, << "b", "*" >> >>
ServerBodies == { Malformed,
                  ConfigData("fetched", TRUE, "basic", UrlWithUser, Absent, EventsMap),
                  ConfigData("fetched", TRUE, "basic", UrlInvalid, Absent, EventsMap),
                  ConfigData("fetched", FALSE, "key_secret", Absent, Absent, EventsMap) }

\* the configs a consuming or non-consuming client can be sent
WebhookBodies ==
  ServerBodies \cup
  { ConfigData("fetched", TRUE, "basic", Absent, Absent, EventsMap),
    ConfigData("fetched", TRUE, "basic", UrlPlain, Absent, EventsMap),
    ConfigData("fetched", TRUE, "token", Absent, "tok", EventsMap),
    ConfigData("fetched", TRUE, "token", Absent, Absent, EventsMap),
    ConfigData("fetched", TRUE, "key_secret", Absent, Absent, EventsMap),
    ConfigData("fetched", TRUE, Absent, Absent, Absent, EventsMap),
    ConfigData("fetched", TRUE, "other", Absent, Absent, << >>),
    ConfigData("fetched", FALSE, "basic", UrlWithUser, Absent, EventsMap) }

\* new URL(data.url).username and .password
UrlUsername(url) == IF url = UrlWithUser THEN "un" ELSE ""
UrlPassword(url) == IF url = UrlWithUser THEN "pw" ELSE ""

\* new URL(data.url) throws on a string that is no absolute URL; the .catch
\* handler of fetchConfig receives the error
ParseThrows(data) ==
  data.can_consume /\ data.auth_type = "basic" /\ data.url = UrlInvalid

\* what the .then handler of fetchConfig makes of data before it becomes this.config
ParseConfig(data) ==
  IF ~data.can_consume THEN data
  ELSE LET d == [data EXCEPT !.topics = data.events]
       IN IF d.auth_type = "basic" /\ d.url # Absent
          THEN [d EXCEPT !.auth_user = UrlUsername(d.url), !.auth_pass = UrlPassword(d.url)]
          ELSE d
FetchOutcomes == { 200, 401, 500, NetErr }

\* ---------------------------------------------------------------- validation
NameMissing(event)  == ~Truthy(event)
\* variant: a name of exactly 255 bytes is refused
NameTooLongAt255(event) == ByteLength(event) >= 255
NameTooLong(event)  == ByteLength(event) > 255
IdMissing(id)       == ~Truthy(id)
\* variant: arrays pass as data
DataRejectedNoArray(data) == TypeOf(data) # "object"
DataRejected(data)  == TypeOf(data) # "object" \/ IsArray(data)

\* typeof options !== 'object' || Array.isArray(data), data being the clone
OptionsRejected(options, data) == TypeOf(options) # "object" \/ IsArray(data)

\* publish(event, data = {}, options = {}): "ok" or the message of the error thrown
PublishCheck(event, data0, options0) ==
  LET data    == Default(data0, Obj({}))
      options == Default(options0, Obj({}))
  IN IF NameMissing(event) THEN "required event name"
     ELSE IF NameTooLong(event) THEN "name length must be less than 255 bytes"
     ELSE IF DataRejected(data) THEN "data must be an object"
     ELSE IF OptionsRejected(options, CloneData(data)) THEN "options must be an object"
     ELSE IF options.t = "null" THEN "TypeError"      \* options.timestamp of null
     ELSE "ok"

\* update(id, data = {}, options = {}): "ok" or the message of the error thrown
UpdateCheck(id, data0, options0) ==
  LET data    == Default(data0, Obj({}))
      options == Default(options0, Obj({}))
  IN IF IdMissing(id) THEN "required event id"
     ELSE IF DataRejected(data) THEN "data must be an object"
     ELSE IF OptionsRejected(options, CloneData(data)) THEN "options must be an object"
     ELSE "ok"

\* if (!options.timestamp) options.timestamp = Date.now(); the timestamp
\* property of an options value is kept in its field n
WithTimestamp(options, t) == IF options.n = 0 THEN [options EXCEPT !.n = t] ELSE options

\* the second argument of _send built by publish and by update
PublishPayload(event, data0, options0, t) ==
  [ data    |-> Sanitize(CloneData(Default(data0, Obj({})))),
    event   |-> event,
    id      |-> Undef,
    options |-> WithTimestamp(Default(options0, Obj({})), t) ]

UpdatePayload(id, data0, options0) ==
  [ data    |-> Sanitize(CloneData(Default(data0, Obj({})))),
    event   |-> Undef,
    id      |-> id,
    options |-> Default(options0, Obj({})) ]

\* event + '-' + Date.now()  and  id + '-' + Date.now()
MakeId(name, t) == [name |-> name.s, ts |-> t]
NoId            == [name |-> "", ts |-> 0]

\* -------------------------------------------------------------------- state
\* -------------------------------------------------------------- topic matcher
\* the segments topics and event names are made of here; "x**" is a segment
\* that merely contains wildcard characters
Segments == { "a", "b", "*", "**", "x**" }
SegIncludesStar(g)  == g \in { "*", "**", "x**", "a*b" }
SegIncludesSplat(g) == g \in { "**", "x**" }

SeqsUpTo(S, n) == UNION { [1..k -> S] : k \in 1..n }

\* the prefix of the names of remote events, and the segments of the topics
\* and names that hold wildcard characters or the prefix themselves: "a*b" has
\* a '*' inside a segment, 'event:a' is a topic that begins like a name
Prefix == "event:"
PatternSegments == { "a", "*", "**", "a*b", Prefix \o "a" }
PatternNameSegments == { "a", "*", "**", "a*b" }
Patterns     == SeqsUpTo(PatternSegments, MaxTopicSegs)
PatternNames == [pre : BOOLEAN, segs : SeqsUpTo(PatternNameSegments, MaxNameSegs)]

\* the string a name is, split at its dots
NameText(name) ==
  IF name.pre THEN << Prefix \o name.segs[1] >> \o Tail(name.segs) ELSE name.segs

\* a topic or a name is the sequence of its dot-separated segments; an event
\* name may carry the 'event:' prefix
Topics     == SeqsUpTo(Segments, MaxTopicSegs)
EventNames == [pre : BOOLEAN, segs : SeqsUpTo(Segments, MaxNameSegs)]

\* topic.includes('*') and topic.includes('**')
IncludesStar(topic)  == \E i \in DOMAIN topic : SegIncludesStar(topic[i])
IncludesSplat(topic) == \E i \in DOMAIN topic : SegIncludesSplat(topic[i])

\* topicSegments.reduce((m, segment, i) => m && (...), true) from index i on;
\* eventSegments[i] is undefined past the end of the name
RECURSIVE ReduceSegments(_, _, _, _)
ReduceSegments(topicSegments, eventSegments, i, m) ==
  IF i > Len(topicSegments) THEN m
  ELSE ReduceSegments(topicSegments, eventSegments, i + 1,
         m /\ ( \/ (i <= Len(eventSegments) /\ topicSegments[i] = eventSegments[i])
                \/ topicSegments[i] = "*"
                \/ (topicSegments[i] = "**" /\ i = Len(topicSegments)) ))

\* variant: the segment counts are never compared
TopicMatchesAnyLength(topic, name) ==
  IF topic = name THEN TRUE
  ELSE IF ~IncludesStar(topic) THEN FALSE
  ELSE ReduceSegments(topic, name, 1, TRUE)

\* the callback of validTopics.find: does topic accept the (stripped) name
TopicMatches(topic, name) ==
  IF topic = name THEN TRUE
  ELSE IF ~IncludesStar(topic) THEN FALSE
  ELSE IF ~IncludesSplat(topic) /\ Len(name) # Len(topic) THEN FALSE
  ELSE ReduceSegments(topic, name, 1, TRUE)

\* [ 'configured', 'unauthorized' ], and null
InternalTopics == << << "configured" >>, << "unauthorized" >> >>
NoTopic == << >>

\* validTopics.find(...) || null, from index i on
RECURSIVE Find(_, _, _)
Find(validTopics, name, i) ==
  IF i > Len(validTopics) THEN NoTopic
  ELSE IF TopicMatches(validTopics[i], name) THEN validTopics[i]
  ELSE Find(validTopics, name, i + 1)

\* variant: the prefix is left on the name
PrefixKept(name) == NameText(name)

\* name.replace('event:', '')
StripPrefix(name) == name.segs

\* hasSubscribedTopic(name, topics), topics being the list validated against
hasSubscribedTopic(name, topics) ==
  Find(InternalTopics \o topics, StripPrefix(name), 1)

\* this.config.topics is there: fetchConfig sets it on a consuming client only
HasTopics(conf) == conf.state = "fetched" /\ conf.can_consume

\* the topics argument: a list, or left out
Given(list) == [given |-> TRUE, list |-> list]
Omitted     == [given |-> FALSE, list |-> << >>]

\* topics || this.config.topics || []
ValidTopics(topics, conf) ==
  IF topics.given THEN topics.list
  ELSE IF HasTopics(conf) THEN conf.topics
  ELSE << >>

\* this.config is undefined on a client constructed disabled, and reading its
\* topics throws
ValidTopicsThrows(topics, conf) == ~topics.given /\ conf.state = "undefined"

\* the names and the lists of topics hasSubscribedTopic is called with
MaxListLen == 2
ListNames ==
  [ pre : BOOLEAN,
    segs : { << "configured" >>, << "unauthorized" >>, << "a", "b" >>, << "b", "a" >>,
             << "b", "b" >>, << "a" >> } ]
ListTopics == { << "a", "b" >>, << "*", "b" >>, << "a", "*" >>, << "b", "**" >> }
TopicLists ==
  { Omitted, Given(<< >>) } \cup { Given(l) : l \in SeqsUpTo(ListTopics, MaxListLen) }

\* a call of this.hasSubscribedTopic(name, topics) made under this.config = conf
ListCall(name, topics, conf) ==
  [ name |-> name, topics |-> topics, conf |-> conf, done |-> TRUE,
    threw |-> ValidTopicsThrows(topics, conf),
    found |-> IF ValidTopicsThrows(topics, conf) THEN NoTopic
              ELSE hasSubscribedTopic(name, ValidTopics(topics, conf)) ]

\* ------------------------------------------------------------ subscriptions
\* the names on() is called with: a subscribed event, an event the client is
\* not subscribed to, and a notification of the client itself
MaxOn == 2
ConfiguredName == [pre |-> FALSE, segs |-> << "configured" >>]
OnNames ==
  { [pre |-> TRUE, segs |-> << "a", "b" >>], [pre |-> TRUE, segs |-> << "x" >>],
    [pre |-> FALSE, segs |-> << "response" >>] }

\* pendingChecks, the listeners of 'configured' that fetchConfig registered,
\* the names registered with on(), and the _validateTopic calls of the last step
NoSubs == [pending |-> << >>, listeners |-> 0, handlers |-> << >>, checked |-> << >>]

\* this.configured: no statement of the client assigns it
IsConfigured(conf) == FALSE

\* _validateTopic(name) under this.config = conf: the check made, and whether
\* it logs 'Unexpected event'
ValidateTopic(name, conf) ==
  [ name |-> name,
    warned |-> name.pre /\ hasSubscribedTopic(name, IF HasTopics(conf) THEN conf.topics ELSE << >>) = NoTopic ]

\* pendingChecks.forEach(this._validateTopic.bind(this))
ValidateAll(pending, conf) == [i \in DOMAIN pending |-> ValidateTopic(pending[i], conf)]

\* the listener run k times
RECURSIVE Repeat(_, _)
Repeat(seq, k) == IF k = 0 THEN << >> ELSE seq \o Repeat(seq, k - 1)

\* on(name, handler)
Subscribe(S, name, conf) ==
  IF ~IsConfigured(conf)
  THEN [S EXCEPT !.pending = Append(@, name), !.handlers = Append(@, name), !.checked = << >>]
  ELSE [S EXCEPT !.handlers = Append(@, name), !.checked = << ValidateTopic(name, conf) >>]

\* this.on('configured', () => pendingChecks.forEach(...)) followed by
\* this.emit('configured', this.config): the call of on queues 'configured',
\* and every listener registered so far by a fetch runs
Configured(S, conf) ==
  LET pending1 == IF ~IsConfigured(conf) THEN Append(S.pending, ConfiguredName) ELSE S.pending
      first    == IF ~IsConfigured(conf) THEN << >> ELSE << ValidateTopic(ConfiguredName, conf) >>
  IN [ S EXCEPT !.pending = pending1,
                !.listeners = @ + 1,
                !.checked = first \o Repeat(ValidateAll(pending1, conf), S.listeners + 1) ]

\* a call of hasSubscribedTopic(name, [topic]) before it has run
MatchInput(name, topic) == [name |-> name, topic |-> topic, done |-> FALSE, found |-> NoTopic]
NoMatch == MatchInput([pre |-> FALSE, segs |-> << "a" >>], << "a" >>)

\* ------------------------------------------------------------------ webhooks
\* body.topic: absent, or an event name
NoTopicField == [pre |-> FALSE, segs |-> << >>]
Name(segs)   == [pre |-> FALSE, segs |-> segs]
BodyTopics ==
  { NoTopicField, Name(<< "a", "b" >>), Name(<< "b", "a" >>), Name(<< "a" >>),
    Name(<< "configured" >>), [pre |-> TRUE, segs |-> << "a", "b" >>] }
Bodies == [topic : BodyTopics]

\* JSON.stringify(body), and createHmac('SHA256', key).update(doc).digest('hex')
Stringify(body) == [json |-> "topic", value |-> body.topic]
Hmac(key, doc)  == [key |-> key, doc |-> doc]
NoSignature     == [key |-> Absent, doc |-> Stringify([topic |-> NoTopicField])]
ClientSecret    == "secret"

\* the Authorization header: missing, not a Basic header, or Basic name:pass
NoAuthorization   == [kind |-> "missing", name |-> "", pass |-> ""]
BadAuthorization  == [kind |-> "malformed", name |-> "", pass |-> ""]
Basic(name, pass) == [kind |-> "basic", name |-> name, pass |-> pass]

\* how the body of a request comes: already parsed by the framework, a JSON
\* stream of an object, a wrong content type, a stream that is no JSON, a JSON
\* stream of a falsy value; "ended" once a stream was read without a body kept
BodyKinds == { "parsed", "json", "badtype", "badjson", "falsy" }

Request(kind, body, authorization, token, signature) ==
  [ marked |-> FALSE, kind |-> kind, body |-> body,
    authorization |-> authorization, token |-> token, signature |-> signature ]

\* the credentials a request with body b may carry
Credentials(b) ==
  { << NoAuthorization, Absent, NoSignature >>,
    << Basic("un", "pw"), Absent, NoSignature >>,
    << Basic("un2", "pw2"), Absent, NoSignature >>,
    << Basic("un", "pw2"), Absent, NoSignature >>,
    << BadAuthorization, Absent, NoSignature >>,
    << NoAuthorization, "tok", NoSignature >>,
    << NoAuthorization, "not-this", NoSignature >>,
    << NoAuthorization, Absent, Hmac(ClientSecret, Stringify(b)) >>,
    << NoAuthorization, Absent, Hmac(ClientSecret, Stringify([topic |-> Name(<< "b" >>)])) >>,
    << NoAuthorization, Absent, Hmac("not-the-secret", Stringify(b)) >> }

\* the credentials that pass one of the ways of authenticating, and none
GoodCredentials(b) ==
  { c \in Credentials(b) :
      \/ c = << NoAuthorization, Absent, NoSignature >>
      \/ c[1] = Basic("un", "pw")
      \/ c[2] = "tok"
      \/ c[3] = Hmac(ClientSecret, Stringify(b)) }

RequestsWith(kinds, b, creds) ==
  { Request(k, b, c[1], c[2], c[3]) : k \in kinds, c \in creds }

\* every body with the good credentials, one body with all credentials, and
\* the bodies that cannot be read
Requests ==
  UNION { RequestsWith({ "parsed" }, b, GoodCredentials(b)) : b \in Bodies }
  \cup RequestsWith({ "parsed", "json" }, [topic |-> Name(<< "a", "b" >>)],
                    Credentials([topic |-> Name(<< "a", "b" >>)]))
  \cup RequestsWith(BodyKinds \ { "parsed", "json" }, [topic |-> NoTopicField],
                    { << NoAuthorization, Absent, NoSignature >>,
                      << Basic("un", "pw"), Absent, NoSignature >> })

NoReq == [ Request("parsed", [topic |-> NoTopicField], NoAuthorization, Absent, NoSignature)
           EXCEPT !.kind = "none" ]

\* _getBody(req, res): what it resolves to, the answer _sendBodyError writes,
\* and what is left of the request's body
GetBody(r, hasRes) ==
  CASE r.kind = "parsed"  -> [res |-> "body", status |-> 0, kind |-> "parsed"]
    [] r.kind = "json"    -> [res |-> "body", status |-> 0, kind |-> "parsed"]
    [] r.kind = "badtype" -> IF hasRes THEN [res |-> "null", status |-> 400, kind |-> "badtype"]
                             ELSE [res |-> "TypeError", status |-> 0, kind |-> "badtype"]
    [] r.kind = "badjson" -> IF hasRes THEN [res |-> "null", status |-> 400, kind |-> "ended"]
                             ELSE [res |-> "TypeError", status |-> 0, kind |-> "ended"]
    [] r.kind = "falsy"   -> [res |-> "falsy", status |-> 0, kind |-> "ended"]
    [] OTHER              -> [res |-> "pending", status |-> 0, kind |-> r.kind]

\* variant: Basic credentials are accepted on the user name alone
AuthenticatedByName(r, conf) ==
  IF conf.auth_type = "basic"
  THEN IF r.authorization.kind # "basic" THEN "TypeError"
       ELSE IF r.authorization.name = conf.auth_user THEN "true" ELSE "false"
  ELSE IF conf.auth_type = "token"
  THEN IF r.token = conf.auth_token THEN "true" ELSE "false"
  ELSE IF conf.auth_type = "key_secret"
  THEN IF r.signature = Hmac(ClientSecret, Stringify(r.body)) THEN "true" ELSE "false"
  ELSE "true"

\* const authenticated = ...: auth(req) is undefined without a Basic header,
\* and creds.name is read only in the 'basic' branch
Authenticated(r, conf) ==
  IF conf.auth_type = "basic"
  THEN IF r.authorization.kind # "basic" THEN "TypeError"
       ELSE IF r.authorization.name = conf.auth_user /\ r.authorization.pass = conf.auth_pass
            THEN "true" ELSE "false"
  ELSE IF conf.auth_type = "token"
  THEN IF r.token = conf.auth_token THEN "true" ELSE "false"
  ELSE IF conf.auth_type = "key_secret"
  THEN IF r.signature = Hmac(ClientSecret, Stringify(r.body)) THEN "true" ELSE "false"
  ELSE "true"

\* what a call of authenticateWebhook or handleWebhook did: what it returned,
\* the HTTP answer it wrote (status 0: none), how often next was invoked,
\* whether the body was read and credentials compared, and what it left of
\* the request
Answer(ret, status, message, next, readBody, compared, marked, kind) ==
  [ ret |-> ret, status |-> status, message |-> message, next |-> next,
    readBody |-> readBody, compared |-> compared, marked |-> marked, kind |-> kind ]

BodyError    == "Body parse error"
NotConsumer  == "This client does not have consumption enabled."
Unauthorized == "Unauthorized"

\* variant: every client counts as a consumer
ConsumptionAlways(conf) == TRUE

\* this.config.can_consume
ConsumptionEnabled(conf) == conf.can_consume

\* authenticateWebhook past the check of req._authenticatedWebhook: the body
\* is read, then can_consume is tested, then the credentials are compared.
\* this.config is undefined on a client constructed disabled
AuthenticateUnmarked(r, conf, hasRes, hasNext) ==
  LET g == GetBody(r, hasRes)
      n == IF hasNext THEN 1 ELSE 0
  IN IF g.res = "pending" THEN Answer("pending", 0, "", 0, TRUE, FALSE, FALSE, g.kind)
     ELSE IF g.res = "TypeError" THEN Answer("TypeError", 0, "", 0, TRUE, FALSE, FALSE, g.kind)
     ELSE IF g.res = "null" THEN Answer("false", 400, BodyError, 0, TRUE, FALSE, FALSE, g.kind)
     ELSE IF g.res = "falsy" THEN Answer("false", 0, "", 0, TRUE, FALSE, FALSE, g.kind)
     ELSE IF conf.state = "undefined" THEN Answer("TypeError", 0, "", 0, TRUE, FALSE, FALSE, g.kind)
     ELSE IF ~ConsumptionEnabled(conf)
          THEN Answer("false", IF hasRes THEN 400 ELSE 0,
                      IF hasRes THEN NotConsumer ELSE "", 0, TRUE, FALSE, FALSE, g.kind)
     ELSE LET a == Authenticated(r, conf)
          IN IF a = "TypeError" THEN Answer("TypeError", 0, "", 0, TRUE, TRUE, FALSE, g.kind)
             ELSE IF a = "false"
                  THEN Answer("false", IF hasRes THEN 401 ELSE 0,
                              IF hasRes THEN Unauthorized ELSE "", 0, TRUE, TRUE, FALSE, g.kind)
             ELSE Answer("true", 0, "", n, TRUE, TRUE, TRUE, g.kind)

\* variant: a request already marked is checked again
AuthenticateAgain(r, conf, hasRes, hasNext) ==
  AuthenticateUnmarked(r, conf, hasRes, hasNext)

\* authenticateWebhook(req, res, next) on request r under this.config = conf
Authenticate(r, conf, hasRes, hasNext) ==
  IF r.marked
  THEN Answer("true", 0, "", IF hasNext THEN 1 ELSE 0, FALSE, FALSE, TRUE, r.kind)
  ELSE AuthenticateUnmarked(r, conf, hasRes, hasNext)

\* the name under which handleWebhook emits: 'event:' + topic
EventName(topic) == [prefix |-> "event:", topic |-> topic]
Success == "success"

\* handleWebhook(req, res) on request r under this.config = conf: what it
\* answered and the notifications it emitted, each with the body it carried.
\* hasSubscribedTopic(topic) calls topic.replace, a TypeError without a topic
Handle(r, conf) ==
  LET a  == Authenticate(r, conf, TRUE, FALSE)
      r2 == [r EXCEPT !.marked = a.marked, !.kind = a.kind]
      g  == GetBody(r2, TRUE)
  IN IF a.ret # "true"
     THEN [ ans |-> [a EXCEPT !.ret = IF a.ret = "false" THEN "returned" ELSE a.ret],
            notified |-> << >> ]
     ELSE IF g.res # "body"
     THEN [ ans |-> [a EXCEPT !.ret = IF g.res \in {"null", "falsy"} THEN "returned" ELSE g.res,
                              !.status = g.status,
                              !.message = IF g.status = 400 THEN BodyError ELSE "",
                              !.kind = g.kind],
            notified |-> << >> ]
     ELSE IF r.body.topic = NoTopicField \/ conf.state = "undefined"
     THEN [ ans |-> [a EXCEPT !.ret = "TypeError"], notified |-> << >> ]
     ELSE [ ans |-> [a EXCEPT !.ret = "returned", !.status = 200, !.message = Success],
            notified |-> IF hasSubscribedTopic(r.body.topic, conf.topics) # NoTopic
                         THEN << [name |-> EventName(r.body.topic), body |-> r.body] >>
                         ELSE << >> ]

\* the last call of authenticateWebhook or handleWebhook on the request at
\* hand under the config at hand
Call(op, hasRes, hasNext, before, ans, notified) ==
  [ op |-> op, hasRes |-> hasRes, hasNext |-> hasNext, before |-> before,
    ans |-> ans, notified |-> notified ]
NoWh == Call("none", FALSE, FALSE, FALSE, Answer("none", 0, "", 0, FALSE, FALSE, FALSE, "none"), << >>)

VARIABLES
  opts,        \* the options the client was constructed with
  ctor,        \* outcome of the constructor: "ok", "disabled" or the error thrown
  disabled,    \* this.disabled
  config,      \* this.config
  cfgInflight, \* config requests awaiting their answer
  fetchCalls,  \* explicit fetchConfig() calls made so far
  retries,     \* this.retries: event id -> attempts
  inflight,    \* HTTP requests of _send awaiting their answer
  timers,      \* pending setTimeout callbacks of _retry
  now,         \* Date.now()
  calls,       \* the publish/update calls handed to _send, in call order
  throws,      \* errors raised so far by a 'response' listener
  ret,         \* how the latest call of the public API ended: "returned" or the error thrown
  emitted,     \* the notifications emitted by the handler that ran last, in order
  match,       \* a call of hasSubscribedTopic: its arguments and what it returned
  req,         \* the webhook request at hand
  wh,          \* what the last webhook call on it did
  pub,         \* a publish of an object graph: the heap before and after it
  batch,       \* the staging queue of the batching revision
  subs         \* the subscriptions made with on() and the checks of their names

\* what the webhook side, the topic matcher, the publish of an object graph
\* and the batching revision work on
webVars == << match, req, wh, pub, batch, subs >>

vars == << opts, ctor, disabled, config, cfgInflight, fetchCalls, retries,
           inflight, timers, now, calls, throws, ret, emitted, webVars >>

NoData == [data |-> Undef, event |-> Undef, id |-> Undef, options |-> Undef]
NoOpts == [method |-> "get", path |-> Undef, data |-> NoData]

ListenerErr == 1  \* String(e) of an error raised by a listener, as retry reason

\* emit(ev, ...): status is the response status or the error code passed,
\* o the request options, count the attempts passed, cfg the config passed
Emit(ev, status, o, count, cfg) ==
  [ev |-> ev, status |-> status, opts |-> o, count |-> count, cfg |-> cfg]

\* the axios options of _send(id, data): POST /api/event or PATCH /api/event/<id>
RequestOpts(data) ==
  IF Truthy(data.id) THEN [method |-> "patch", path |-> data.id, data |-> data]
  ELSE [method |-> "post", path |-> Undef, data |-> data]

HasRecord(R, id) == id \in DOMAIN R
Attempts(R, id)  == IF HasRecord(R, id) THEN R[id] ELSE 0

\* variant: a success resets the whole table (this.retries = {})
DeleteRecordAll(R, id) == [i \in {} |-> 0]

\* delete this.retries[id]
DeleteRecord(R, id) == [i \in DOMAIN R \ {id} |-> R[i]]

\* this.retries[id] = (this.retries[id] || 0) + 1
Increment(R, id) == (id :> (Attempts(R, id) + 1)) @@ R

\* this.retries[id] > this.retryLimit (false when the record is absent)
RetryLimitExceeded(R, id) == HasRecord(R, id) /\ R[id] > RetryLimit

\* variant: every retry waits 500ms
RetryDelayFlat(R, id) ==
  IF HasRecord(R, id) THEN 500 ELSE NaN

\* Math.max(500, (Math.pow(2, this.retries[id]) - 1) * 500)
RetryDelay(R, id) ==
  IF HasRecord(R, id) THEN Max(500, (Pow2(R[id]) - 1) * 500) ELSE NaN

\* no call is made after MaxClock, so every later time is kept as MaxClock + 1
Later(t) == Min(t, MaxClock + 1)

\* the time setTimeout(f, delay) waits at least
TimerWait(delay) == IF delay = NaN THEN 1 ELSE delay

\* variant: a 400 answer falls through to the retry branch
ClassifyRetry400(code, method) ==
  IF code = 401 \/ code = 403 THEN "unauthorized"
  ELSE IF code = 404 THEN "notfound"
  ELSE "retry"

\* variant: 403 and 404 end the delivery of a PATCH only
ClassifyPatchOnly(code, method) ==
  IF code = 401 \/ (code = 403 /\ method = "patch") THEN "unauthorized"
  ELSE IF code = 404 /\ method = "patch" THEN "notfound"
  ELSE IF code = 400 THEN "failed"
  ELSE "retry"

\* variant: a 403 answer ends the delivery without 'unauthorized'
ClassifySilent403(code, method) ==
  IF code = 401 THEN "unauthorized"
  ELSE IF code = 404 THEN "notfound"
  ELSE IF code = 400 \/ code = 403 THEN "failed"
  ELSE "retry"

\* the branch the catch handler of _send takes for err.code; the request
\* method is not consulted
Classify(code, method) ==
  IF code = 401 \/ code = 403 THEN "unauthorized"
  ELSE IF code = 404 THEN "notfound"
  ELSE IF code = 400 THEN "failed"
  ELSE "retry"

Is2xx(status) == status >= 200 /\ status < 300

\* variant: the retry is announced but its timer is never set
RetryEffectNoTimer(R, a, reason, o) ==
  IF disabled THEN [res |-> "ignored", timers |-> {}, emits |-> <<>>]
  ELSE IF RetryLimitExceeded(R, a.id)
       THEN [res |-> "exceeded", timers |-> {}, emits |-> <<>>]
  ELSE [ res    |-> "scheduled",
         timers |-> {},
         emits  |-> << Emit("retry", reason, o, Attempts(R, a.id), NoConfig) >> ]

\* _retry(id, data, reason, opts) of attempt a, on the retry table R
RetryEffect(R, a, reason, o) ==
  IF disabled THEN [res |-> "ignored", timers |-> {}, emits |-> <<>>]
  ELSE IF RetryLimitExceeded(R, a.id)
       THEN [res |-> "exceeded", timers |-> {}, emits |-> <<>>]
  ELSE [ res    |-> "scheduled",
         timers |-> { [ call |-> a.call, id |-> a.id, data |-> a.data,
                        delay |-> RetryDelay(R, a.id),
                        due |-> Later(now + TimerWait(RetryDelay(R, a.id))) ] },
         emits  |-> << Emit("retry", reason, o, Attempts(R, a.id), NoConfig) >> ]

NoEffect == [res |-> "none", timers |-> {}, emits |-> << >>]

\* the .catch(e => ...) handler of _send for err.code = code
CatchEffect(R, a, code, o) ==
  LET cls == Classify(code, a.method)
  IN IF cls = "retry" THEN RetryEffect(R, a, code, o)
     ELSE [ res    |-> cls,
            timers |-> {},
            emits  |-> IF cls = "failed" THEN << >>
                       ELSE << Emit(cls, code, o, 0, NoConfig) >> ]

\* variant: _send does not look at this.disabled
SendRunsWhileDisabled(data) == Truthy(data.event) \/ Truthy(data.id)

\* _send(id, data) issues a request unless disabled or data has no event and no id
SendRuns(data) == ~disabled /\ (Truthy(data.event) \/ Truthy(data.id))

Attempt(c, id, data) ==
  [call |-> c, id |-> id, data |-> data, method |-> RequestOpts(data).method]

\* what the outcome of an attempt makes of its call
OutcomeOf(res, old) ==
  CASE res \in {"unauthorized", "notfound", "failed"} -> "rejected"
    [] res = "exceeded" -> "abandoned"
    [] res = "ignored"  -> "dropped"
    [] OTHER            -> old

SetOutcome(c, o) == [calls EXCEPT ![c].outcome = o]

InitClient ==
  /\ opts \in CtorOpts
  /\ ctor = CtorResult(opts)
  /\ disabled = opts.disabled
  /\ config = IF ctor = "ok" THEN EmptyConfig ELSE NoConfig
  /\ cfgInflight = IF ctor = "ok" THEN 1 ELSE 0
  /\ fetchCalls = 0
  /\ retries = [i \in {} |-> 0]
  /\ inflight = {}
  /\ timers = {}
  /\ now = 1
  /\ calls = << >>
  /\ throws = 0
  /\ ret = "none"
  /\ emitted = << >>

NoWebhook == req = NoReq /\ wh = NoWh

Init == InitClient /\ match = NoMatch /\ NoWebhook /\ pub = NoPub /\ batch = NoBatch /\ subs = NoSubs

Constructed == ctor \in {"ok", "disabled"}

\* ------------------------------------------------------------------ actions
\* publish(event, data, options)
Publish(event, data, options) ==
  LET chk     == PublishCheck(event, data, options)
      id      == MakeId(event, now)
      payload == PublishPayload(event, data, options, now)
      c       == Len(calls) + 1
  IN /\ Constructed
     /\ Len(calls) < MaxCalls
     /\ now <= MaxClock
     /\ emitted' = << >>
     /\ IF disabled \/ chk # "ok" \/ ~SendRuns(payload)
        THEN /\ ret' = IF disabled \/ chk = "ok" THEN "returned" ELSE chk
             /\ UNCHANGED << retries, inflight, calls >>
        ELSE /\ retries' = Increment(retries, id)
             /\ inflight' = inflight \cup { Attempt(c, id, payload) }
             /\ calls' = Append(calls, [kind |-> "publish", id |-> id, data |-> payload, outcome |-> "none"])
             /\ ret' = "returned"
     /\ UNCHANGED << opts, ctor, disabled, config, cfgInflight, fetchCalls, timers, now, throws >>
     /\ UNCHANGED webVars

\* update(id, data, options)
Update(uid, data, options) ==
  LET chk     == UpdateCheck(uid, data, options)
      id      == MakeId(uid, now)
      payload == UpdatePayload(uid, data, options)
      c       == Len(calls) + 1
  IN /\ Constructed
     /\ Len(calls) < MaxCalls
     /\ now <= MaxClock
     /\ emitted' = << >>
     /\ IF disabled \/ chk # "ok" \/ ~SendRuns(payload)
        THEN /\ ret' = IF disabled \/ chk = "ok" THEN "returned" ELSE chk
             /\ UNCHANGED << retries, inflight, calls >>
        ELSE /\ retries' = Increment(retries, id)
             /\ inflight' = inflight \cup { Attempt(c, id, payload) }
             /\ calls' = Append(calls, [kind |-> "update", id |-> id, data |-> payload, outcome |-> "none"])
             /\ ret' = "returned"
     /\ UNCHANGED << opts, ctor, disabled, config, cfgInflight, fetchCalls, timers, now, throws >>
     /\ UNCHANGED webVars

\* the request of attempt a is answered: the .then / .catch handlers of _send.
\* thr: a listener of 'response' raises an error, which the .catch receives
Respond(a, outcome, thr) ==
  LET o    == RequestOpts(a.data)
      R1   == IF Is2xx(outcome) THEN DeleteRecord(retries, a.id) ELSE retries
      resp == IF Is2xx(outcome) THEN << Emit("response", outcome, o, 0, NoConfig) >> ELSE << >>
      eff  == IF Is2xx(outcome)
              THEN IF thr THEN CatchEffect(R1, a, ListenerErr, o) ELSE NoEffect
              ELSE CatchEffect(R1, a, outcome, o)
  IN /\ a \in inflight
     /\ thr => (Is2xx(outcome) /\ throws < MaxThrows)
     /\ inflight' = inflight \ {a}
     /\ retries' = R1
     /\ timers' = timers \cup eff.timers
     /\ emitted' = resp \o eff.emits
     /\ throws' = IF thr THEN throws + 1 ELSE throws
     /\ calls' = SetOutcome(a.call, IF Is2xx(outcome) THEN "success"
                                    ELSE OutcomeOf(eff.res, calls[a.call].outcome))
     /\ UNCHANGED << opts, ctor, disabled, config, cfgInflight, fetchCalls, now, ret >>
     /\ UNCHANGED webVars

\* a backoff timer fires: () => this._send(id, data)
FireTimer(t) ==
  /\ t \in timers
  /\ timers' = timers \ {t}
  /\ now' = Max(now, t.due)
  /\ emitted' = << >>
  /\ IF SendRuns(t.data)
     THEN /\ retries' = Increment(retries, t.id)
          /\ inflight' = inflight \cup { Attempt(t.call, t.id, t.data) }
          /\ calls' = calls
     ELSE /\ calls' = SetOutcome(t.call, "dropped")
          /\ UNCHANGED << retries, inflight >>
  /\ UNCHANGED << opts, ctor, disabled, config, cfgInflight, fetchCalls, throws, ret >>
  /\ UNCHANGED webVars

\* time passes between two calls
Tick ==
  /\ Constructed
  /\ now < MaxClock
  /\ now' = now + 1
  /\ UNCHANGED << opts, ctor, disabled, config, cfgInflight, fetchCalls, retries,
                  inflight, timers, calls, throws, ret, emitted >>
  /\ UNCHANGED webVars

\* the application sets client.disabled
Disable ==
  /\ ctor = "ok"
  /\ ~disabled
  /\ disabled' = TRUE
  /\ UNCHANGED << opts, ctor, config, cfgInflight, fetchCalls, retries,
                  inflight, timers, now, calls, throws, ret, emitted >>
  /\ UNCHANGED webVars

\* fetchConfig() called again by the application; createHmac throws
\* without a secret
FetchConfig ==
  /\ Constructed
  /\ fetchCalls < MaxFetches
  /\ fetchCalls' = fetchCalls + 1
  /\ emitted' = << >>
  /\ IF opts.secret
     THEN /\ config' = EmptyConfig
          /\ cfgInflight' = cfgInflight + 1
          /\ ret' = "returned"
     ELSE /\ ret' = "TypeError"
          /\ UNCHANGED << config, cfgInflight >>
  /\ UNCHANGED << opts, ctor, disabled, retries, inflight, timers, now, calls, throws >>
  /\ wh' = NoWh /\ UNCHANGED << match, req, pub, batch, subs >>

\* variant: an answer without config data is taken as a config
AcceptedWithoutData(outcome, body) == Is2xx(outcome) /\ ~ParseThrows(body)

\* the .then handler of fetchConfig reaches this.config = data: the request
\* was answered 2xx, the answer holds config data, and nothing threw
Accepted(outcome, body) == Is2xx(outcome) /\ body # Malformed /\ ~ParseThrows(body)

\* a config request is answered: the .then / .catch handlers of fetchConfig
FetchRespond(outcome, body) ==
  /\ cfgInflight > 0
  /\ cfgInflight' = cfgInflight - 1
  /\ IF Accepted(outcome, body)
     THEN /\ config' = ParseConfig(body)
          /\ subs' = Configured(subs, ParseConfig(body))
          /\ emitted' = << Emit("configured", outcome, NoOpts, 0, ParseConfig(body)) >>
     ELSE /\ config' = config
          /\ subs' = [subs EXCEPT !.checked = << >>]
          /\ emitted' = IF outcome = 401
                        THEN << Emit("unauthorized", outcome, NoOpts, 0, NoConfig) >>
                        ELSE << >>
  /\ UNCHANGED << opts, ctor, disabled, fetchCalls, retries, inflight, timers, now, calls, throws, ret >>
  /\ wh' = NoWh /\ UNCHANGED << match, req, pub, batch >>

\* ----------------------------------------------------------- specifications
\* the delivery engine: calls with valid arguments, every outcome and timer
ValidName == Str("a", 1)

Next ==
  \/ Publish(ValidName, Undef, Undef)
  \/ Update(ValidName, Undef, Undef)
  \/ \E a \in inflight, s \in Outcomes, thr \in BOOLEAN : Respond(a, s, thr)
  \/ \E t \in timers : FireTimer(t)
  \/ Tick
  \/ Disable

Spec == Init /\ [][Next]_vars

\* the public calls with every kind of argument, and their delivery
NextInput ==
  \/ \E e \in EventArgs, d \in DataArgs, o \in OptionArgs :
        Len(calls) < MaxInputCalls /\ Publish(e, d, o)
  \/ \E i \in IdArgs, d \in DataArgs, o \in OptionArgs :
        Len(calls) < MaxInputCalls /\ Update(i, d, o)
  \/ \E a \in inflight, s \in Outcomes : Respond(a, s, FALSE)
  \/ \E t \in timers : FireTimer(t)

SpecInput == Init /\ [][NextInput]_vars

\* config fetches next to the delivery of calls
NextConfig ==
  \/ Len(calls) < MaxInputCalls /\ Publish(ValidName, Undef, Undef)
  \/ Len(calls) < MaxInputCalls /\ Update(ValidName, Undef, Undef)
  \/ \E a \in inflight, s \in Outcomes : Respond(a, s, FALSE)
  \/ \E t \in timers : FireTimer(t)
  \/ FetchConfig
  \/ \E s \in FetchOutcomes, b \in ServerBodies : FetchRespond(s, b)

SpecConfig == Init /\ [][NextConfig]_vars

\* the delivery engine call by call; LiveSpec has every request answered
\* and every timer fired
RespondCall(c) == \E a \in inflight, s \in Outcomes, thr \in BOOLEAN :
                     a.call = c /\ Respond(a, s, thr)
FireCall(c)    == \E t \in timers : t.call = c /\ FireTimer(t)

NextDelivery ==
  \/ Len(calls) < MaxInputCalls /\ Publish(ValidName, Undef, Undef)
  \/ Len(calls) < MaxInputCalls /\ Update(ValidName, Undef, Undef)
  \/ \E c \in 1..(MaxInputCalls + 1) : RespondCall(c)
  \/ \E c \in 1..(MaxInputCalls + 1) : FireCall(c)
  \/ Tick
  \/ Disable

SpecDelivery == Init /\ [][NextDelivery]_vars

\* the same without Tick: the clock moves only when a timer fires
NextLive ==
  \/ Len(calls) < MaxInputCalls /\ Publish(ValidName, Undef, Undef)
  \/ Len(calls) < MaxInputCalls /\ Update(ValidName, Undef, Undef)
  \/ \E c \in 1..(MaxInputCalls + 1) : RespondCall(c)
  \/ \E c \in 1..(MaxInputCalls + 1) : FireCall(c)
  \/ Disable

LiveSpec ==
  /\ Init /\ [][NextLive]_vars
  /\ \A c \in 1..(MaxInputCalls + 1) : WF_vars(RespondCall(c)) /\ WF_vars(FireCall(c))

\* two events of different names under way at once, each called once, so
\* that their ids differ
PairNames == { Str("a", 1), Str("n255", 255) }

Called(name) == \E c \in DOMAIN calls : calls[c].id.name = name.s

NextPair ==
  \/ \E n \in PairNames : ~Called(n) /\ Publish(n, Undef, Undef)
  \/ \E n \in PairNames : ~Called(n) /\ Update(n, Undef, Undef)
  \/ \E a \in inflight, s \in Outcomes : Respond(a, s, FALSE)
  \/ \E t \in timers : FireTimer(t)

SpecPair == Init /\ [][NextPair]_vars

\* a webhook request arrives
Arrive(r) ==
  /\ Constructed
  /\ req' = r
  /\ wh' = NoWh
  /\ UNCHANGED << opts, ctor, disabled, config, cfgInflight, fetchCalls, retries,
                  inflight, timers, now, calls, throws, ret, emitted, match, pub, batch, subs >>

\* authenticateWebhook(req, res, next), res and next given or not
AuthenticateWebhook(hasRes, hasNext) ==
  LET a == Authenticate(req, config, hasRes, hasNext)
  IN /\ req # NoReq
     /\ wh' = Call("authenticate", hasRes, hasNext, req.marked, a, << >>)
     /\ req' = [req EXCEPT !.marked = a.marked, !.kind = a.kind]
     /\ UNCHANGED << opts, ctor, disabled, config, cfgInflight, fetchCalls, retries,
                     inflight, timers, now, calls, throws, ret, emitted, match, pub, batch, subs >>

\* handleWebhook(req, res)
HandleWebhook ==
  LET h == Handle(req, config)
  IN /\ req # NoReq
     /\ wh' = Call("handle", TRUE, FALSE, req.marked, h.ans, h.notified)
     /\ req' = [req EXCEPT !.marked = h.ans.marked, !.kind = h.ans.kind]
     /\ UNCHANGED << opts, ctor, disabled, config, cfgInflight, fetchCalls, retries,
                     inflight, timers, now, calls, throws, ret, emitted, match, pub, batch, subs >>

\* webhook requests against every config the client can come to hold
InitWebhook == Init /\ opts.key /\ opts.secret

NextWebhook ==
  \/ \E r \in Requests : Arrive(r)
  \/ \E hasRes \in BOOLEAN, hasNext \in BOOLEAN : AuthenticateWebhook(hasRes, hasNext)
  \/ HandleWebhook
  \/ FetchConfig
  \/ \E s \in FetchOutcomes, b \in WebhookBodies : FetchRespond(s, b)

SpecWebhook == InitWebhook /\ [][NextWebhook]_vars

\* hasSubscribedTopic(name, [topic]) runs on the arguments drawn at the start
HasSubscribedTopic ==
  /\ ~match.done
  /\ match' = [match EXCEPT !.done = TRUE,
                              !.found = hasSubscribedTopic(match.name, << match.topic >>)]
  /\ UNCHANGED << opts, ctor, disabled, config, cfgInflight, fetchCalls, retries,
                  inflight, timers, now, calls, throws, ret, emitted, req, wh, pub, batch, subs >>

\* the topic matcher on every name and topic within the bounds
InitTopics ==
  /\ InitClient
  /\ opts = [disabled |-> FALSE, key |-> TRUE, secret |-> TRUE]
  /\ match \in { MatchInput(n, t) : n \in EventNames, t \in Topics }
  /\ NoWebhook
  /\ pub = NoPub /\ batch = NoBatch /\ subs = NoSubs

NextTopics == HasSubscribedTopic

SpecTopics == InitTopics /\ [][NextTopics]_vars

\* the topic matcher on topics and names that hold wildcard characters
InitPatterns ==
  /\ InitClient
  /\ opts = [disabled |-> FALSE, key |-> TRUE, secret |-> TRUE]
  /\ match \in { MatchInput(n, t) : n \in PatternNames, t \in Patterns }
  /\ NoWebhook
  /\ pub = NoPub /\ batch = NoBatch /\ subs = NoSubs

SpecPatterns == InitPatterns /\ [][NextTopics]_vars

\* hasSubscribedTopic(name, topics) is called on the client as it is; the call
\* changes nothing, so one call is followed in each behaviour
SubscribedCall(name, topics) ==
  /\ Constructed
  /\ ~match.done
  /\ match' = ListCall(name, topics, config)
  /\ UNCHANGED << opts, ctor, disabled, config, cfgInflight, fetchCalls, retries,
                  inflight, timers, now, calls, throws, ret, emitted, req, wh, pub, batch, subs >>

\* lists of topics, given or configured, on every config the client comes to hold
InitSubscribed == Init /\ Constructed

NextSubscribed ==
  \/ \E n \in ListNames, l \in TopicLists : SubscribedCall(n, l)
  \/ FetchConfig
  \/ \E s \in FetchOutcomes, b \in ServerBodies : FetchRespond(s, b)

SpecSubscribed == InitSubscribed /\ [][NextSubscribed]_vars

\* publish(event, data) with the caller's object graph as data: the object
\* handed to _send lives on the heap, at pub.root
DataOutcomes == { 200, 500 }
PublishData ==
  LET res     == PublishedData(pub.heap, DataRoot)
      id      == MakeId(ValidName, now)
      payload == PublishPayload(ValidName, Obj({}), Undef, now)
      c       == Len(calls) + 1
  IN /\ Constructed
     /\ ~pub.done
     /\ Len(calls) < MaxCalls
     /\ now <= MaxClock
     /\ emitted' = << >>
     /\ IF disabled
        THEN /\ pub' = [pub EXCEPT !.done = TRUE]
             /\ ret' = "returned"
             /\ UNCHANGED << retries, inflight, calls >>
        ELSE IF res.threw
        THEN /\ pub' = [pub EXCEPT !.done = TRUE, !.threw = TRUE]
             /\ ret' = "data could not be parsed"
             /\ UNCHANGED << retries, inflight, calls >>
        ELSE /\ pub' = [pub EXCEPT !.done = TRUE, !.heap = res.heap, !.root = res.root]
             /\ retries' = Increment(retries, id)
             /\ inflight' = inflight \cup { Attempt(c, id, payload) }
             /\ calls' = Append(calls, [kind |-> "publish", id |-> id, data |-> payload, outcome |-> "none"])
             /\ ret' = "returned"
     /\ UNCHANGED << opts, ctor, disabled, config, cfgInflight, fetchCalls, timers, now, throws >>
     /\ UNCHANGED << match, req, wh, batch, subs >>

\* _sanitize(data, []) applied to the caller's object graph as it is
SanitizeCall ==
  /\ Constructed
  /\ ~pub.done
  /\ pub' = [pub EXCEPT !.done = TRUE, !.heap = SanitizeData(pub.heap, DataRoot), !.root = DataRoot]
  /\ UNCHANGED << opts, ctor, disabled, config, cfgInflight, fetchCalls, retries,
                  inflight, timers, now, calls, throws, ret, emitted >>
  /\ UNCHANGED << match, req, wh, batch, subs >>

\* the caller's data in every shape, published and delivered with retries
InitData ==
  /\ InitClient
  /\ opts.key /\ opts.secret
  /\ match = NoMatch
  /\ NoWebhook
  /\ pub \in { DataCall(h) : h \in DataHeaps }
  /\ batch = NoBatch
  /\ subs = NoSubs

NextData ==
  \/ PublishData
  \/ \E a \in inflight, s \in DataOutcomes : Respond(a, s, FALSE)
  \/ \E t \in timers : FireTimer(t)

SpecData == InitData /\ [][NextData]_vars

\* the sanitizer on every object graph, circular ones included
SpecSanitize == InitData /\ [][SanitizeCall]_vars

\* publish(name) of the batching revision: the event is pushed on the queue
\* and the flush timeout is set unless one is pending
StagePublish(name) ==
  /\ Constructed
  /\ Len(batch.queue) + Len(batch.sent) < MaxStaged
  /\ ret' = "returned"
  /\ emitted' = << >>
  /\ batch' = IF disabled THEN batch
              ELSE [batch EXCEPT !.queue = Append(@, name),
                                 !.timer = IF TimerNeeded(batch) THEN batch.maxWait ELSE @,
                                 !.pending = IF TimerNeeded(batch) THEN @ + 1 ELSE @]
  /\ UNCHANGED << opts, ctor, disabled, config, cfgInflight, fetchCalls, retries,
                  inflight, timers, now, calls, throws, match, req, wh, pub, subs >>

\* _publish(), the callback of the flush timeout: every queued event goes to _send
FlushBatch ==
  /\ batch.pending > 0
  /\ batch' = [batch EXCEPT !.sent = @ \o batch.queue, !.queue = << >>, !.timer = 0,
                            !.pending = @ - 1]
  /\ emitted' = << >>
  /\ UNCHANGED << opts, ctor, disabled, config, cfgInflight, fetchCalls, retries,
                  inflight, timers, now, calls, throws, ret, match, req, wh, pub, subs >>

\* the batching revision under every batching option
InitBatching ==
  /\ InitClient
  /\ match = NoMatch
  /\ NoWebhook
  /\ pub = NoPub
  /\ batch \in { Batch(o) : o \in BatchingOptions }
  /\ subs = NoSubs

NextBatching ==
  \/ \E n \in StagedNames : StagePublish(n)
  \/ FlushBatch

SpecBatching == InitBatching /\ [][NextBatching]_vars

\* on(name, handler) called by the application
On(name) ==
  /\ Constructed
  /\ Len(subs.handlers) < MaxOn
  /\ subs' = Subscribe(subs, name, config)
  /\ ret' = "returned"
  /\ emitted' = << >>
  /\ UNCHANGED << opts, ctor, disabled, config, cfgInflight, fetchCalls, retries,
                  inflight, timers, now, calls, throws, match, req, wh, pub, batch >>

\* subscriptions made before and after the config arrives and is refreshed
NextSubscriptions ==
  \/ \E n \in OnNames : On(n)
  \/ FetchConfig
  \/ \E s \in FetchOutcomes, b \in ServerBodies : FetchRespond(s, b)

SpecSubscriptions == Init /\ [][NextSubscriptions]_vars

\* ------------------------------------------------------------------- claims
CountEv(seq, ev) == Cardinality({ i \in DOMAIN seq : seq[i].ev = ev })
Pending(c) == (\E a \in inflight : a.call = c) \/ (\E t \in timers : t.call = c)

\* what one answer to attempt a that schedules exactly one retry looks like
OneRetryScheduled(a) ==
  /\ Cardinality(timers' \ timers) = 1
  /\ \A t \in timers' \ timers :
        t.call = a.call /\ t.id = a.id /\ t.data = a.data /\ t.delay >= 500
  /\ CountEv(emitted', "retry") = 1

NoRetryScheduled == timers' = timers /\ CountEv(emitted', "retry") = 0

\* C1 as stated: 400 and 401 (and 403/404 answering an update) schedule no retry
\* and the id is never sent again; every other failure schedules exactly one
\* retry with delay >= 500ms and emits one 'retry'
C1_AsClaimed ==
  [][ /\ \A a \in inflight, s \in Outcomes \ {200} :
           (Respond(a, s, FALSE) /\ ~disabled /\ Attempts(retries, a.id) \in 1..RetryLimit)
           => IF s \in {400, 401} \/ (a.method = "patch" /\ s \in {403, 404})
              THEN NoRetryScheduled
              ELSE OneRetryScheduled(a)
      /\ \A c \in DOMAIN calls :
           calls[c].outcome = "rejected"
           => \A a \in inflight' \ inflight : a.id # calls[c].id ]_vars

\* C1 (amended): 400, 401, 403 and 404 answering a create or an update schedule
\* no retry and no further attempt of that call is issued; any other non-2xx
\* status or a transport error schedules exactly one retry of the same id and
\* payload with delay >= 500ms and emits one 'retry'
C1_Classification ==
  [][ /\ \A a \in inflight, s \in Outcomes \ {200} :
           (Respond(a, s, FALSE) /\ ~disabled /\ Attempts(retries, a.id) \in 1..RetryLimit)
           => IF s \in {400, 401, 403, 404}
              THEN NoRetryScheduled /\ ~Pending(a.call)'
              ELSE OneRetryScheduled(a)
      /\ \A c \in DOMAIN calls :
           calls[c].outcome = "rejected"
           => /\ calls'[c].outcome = "rejected"
              /\ \A a \in inflight' \ inflight : a.call # c ]_vars

\* a 500 answer has just scheduled the retry of a call
C1_Witness ==
  /\ \E t \in timers : t.delay >= 500 /\ calls[t.call].outcome = "none"
  /\ CountEv(emitted, "retry") = 1
  /\ emitted[1].status = 500
  /\ emitted[1].count \in 1..RetryLimit

\* C2 as stated: a 2xx answer for id X deletes RetryRecord[X], emits exactly one
\* 'response' carrying the response and the request options, and schedules no retry
C2_AsClaimed ==
  [][ \A a \in inflight, s \in Outcomes, thr \in BOOLEAN :
        (Respond(a, s, thr) /\ Is2xx(s))
        => /\ ~HasRecord(retries', a.id)
           /\ CountEv(emitted', "response") = 1
           /\ \E i \in DOMAIN emitted' :
                /\ emitted'[i].ev = "response"
                /\ emitted'[i].status = s
                /\ emitted'[i].opts = RequestOpts(a.data)
           /\ NoRetryScheduled ]_vars

\* C3: under fair answering of requests and firing of timers, every accepted
\* call of a client that stays enabled reaches Success, Rejected or Abandoned;
\* a call is abandoned only with its attempt count above the retry limit, and
\* an abandoned call stays abandoned with no attempt pending or issued
Terminal == {"success", "rejected", "abandoned"}

C3_Liveness ==
  /\ \A c \in 1..(MaxInputCalls + 1) :
        (Len(calls) >= c) ~> (disabled \/ (Len(calls) >= c /\ calls[c].outcome \in Terminal))
  /\ [][ \A c \in DOMAIN calls :
           /\ (calls[c].outcome # "abandoned" /\ calls'[c].outcome = "abandoned")
              => Attempts(retries, calls[c].id) > RetryLimit
           /\ calls[c].outcome = "abandoned"
              => calls'[c].outcome = "abandoned" /\ ~Pending(c)' ]_vars

\* a call abandoned after RetryLimit + 1 attempts
C3_Witness ==
  \E c \in DOMAIN calls :
    /\ calls[c].outcome = "abandoned"
    /\ Attempts(retries, calls[c].id) = RetryLimit + 1
    /\ ~Pending(c)

\* the arguments the interface documents as valid
ValidData(d)     == d.t \in {"undefined", "null", "object"}
ValidOptions(o)  == o.t \in {"undefined", "object"}
ValidEvent(e)    == e.t = "string" /\ e.n >= 1 /\ e.n <= 255
ValidId(i)       == i.t = "string" /\ i.n >= 1
ValidationErrors == { "required event name", "name length must be less than 255 bytes",
                      "data must be an object", "options must be an object",
                      "required event id" }

\* publish and update never touch timers nor take a request out of flight
IsCallStep == timers' = timers /\ inflight \subseteq inflight' /\ now' = now

\* the arguments that pass validation
ValidEvents     == { e \in EventArgs : ValidEvent(e) }
ValidIds        == { i \in IdArgs : ValidId(i) }
ValidDatas      == { d \in DataArgs : ValidData(d) }
ValidOptionArgs == { o \in OptionArgs : ValidOptions(o) }

\* C4: with valid arguments publish and update return normally and hand the
\* event to delivery; no answer, retry or exhaustion changes how the call ended
C4_FireAndForget ==
  [][ /\ (IsCallStep /\ ~disabled) =>
           /\ \A e \in ValidEvents, d \in ValidDatas, o \in ValidOptionArgs :
                Publish(e, d, o) => ret' = "returned" /\ Len(calls') = Len(calls) + 1
           /\ \A i \in ValidIds, d \in ValidDatas, o \in ValidOptionArgs :
                Update(i, d, o) => ret' = "returned" /\ Len(calls') = Len(calls) + 1
      /\ ret' # ret =>
           /\ \A a \in inflight, s \in Outcomes : ~Respond(a, s, FALSE)
           /\ \A t \in timers : ~FireTimer(t) ]_vars

\* a published event was abandoned and the call still counts as returned
C4_Witness ==
  \E c \in DOMAIN calls :
    calls[c].kind = "publish" /\ calls[c].outcome = "abandoned" /\ ret = "returned"

\* the arguments the validation of publish and update must refuse
BadPublishArgs ==
  { a \in EventArgs \X DataArgs :
      a[1].t = "undefined" \/ a[1].n = 0 \/ a[1].n > 255 \/ a[2].t \in {"number", "array"} }
BadIds == { i \in IdArgs : i.t = "undefined" \/ i.n = 0 }

\* the call threw a validation error and touched nothing
Refused ==
  /\ ret' \in ValidationErrors
  /\ UNCHANGED << retries, inflight, timers, calls >>
  /\ emitted' = << >>

\* C5: on an enabled client, publish without a name, with a name over 255
\* bytes or with primitive or array data, and update without an id, throw a
\* validation error and leave retry table, requests, timers and notifications alone
\* (stated on steps: a step of an enabled client that is no such refusal is
\* no publish and no update with any of these arguments)
C5_ValidationFirst ==
  [][ (IsCallStep /\ ~disabled /\ ~Refused) =>
        /\ \A a \in BadPublishArgs, o \in OptionArgs : ~Publish(a[1], a[2], o)
        /\ \A i \in BadIds, d \in DataArgs, o \in OptionArgs : ~Update(i, d, o) ]_vars

\* an enabled client has just refused a call and nothing is in delivery
C5_Witness ==
  ctor = "ok" /\ ret \in ValidationErrors /\ calls = << >> /\ inflight = {} /\ emitted = << >>

\* C6 as stated: options that are a primitive, an array or null are refused
\* with 'options must be an object' and nothing is sent
C6_AsClaimed ==
  [][ /\ \A e \in EventArgs, d \in DataArgs, o \in OptionArgs :
           (Publish(e, d, o) /\ ~disabled /\ ValidEvent(e) /\ ValidData(d)
              /\ o.t \in {"number", "array", "null"})
           => ret' = "options must be an object" /\ UNCHANGED << retries, inflight, calls >>
      /\ \A i \in IdArgs, d \in DataArgs, o \in OptionArgs :
           (Update(i, d, o) /\ ~disabled /\ ValidId(i) /\ ValidData(d)
              /\ o.t \in {"number", "array", "null"})
           => ret' = "options must be an object" /\ UNCHANGED << retries, inflight, calls >> ]_vars

\* C7 as stated: every attempt and every retry of a call carries the id and
\* payload of its first attempt, and no two calls have the same id
C7_AsClaimed ==
  /\ \A a \in inflight \cup timers :
        a.id = calls[a.call].id /\ a.data = calls[a.call].data
  /\ \A c1, c2 \in DOMAIN calls : c1 # c2 => calls[c1].id # calls[c2].id

\* C8 as stated: 403 and 404 end delivery of an update only; answering a
\* create they schedule a retry
C8_AsClaimed ==
  [][ \A a \in inflight, s \in {403, 404} :
        (Respond(a, s, FALSE) /\ ~disabled /\ Attempts(retries, a.id) \in 1..RetryLimit)
        => IF a.method = "patch" THEN NoRetryScheduled ELSE OneRetryScheduled(a) ]_vars

\* C8 (amended): 403 and 404 end delivery without retry whether they answer
\* an update (PATCH) or a create (POST)
C8_TerminalForBoth ==
  [][ \A a \in inflight, s \in {403, 404} :
        (Respond(a, s, FALSE) /\ ~disabled /\ Attempts(retries, a.id) \in 1..RetryLimit)
        => /\ NoRetryScheduled
           /\ ~Pending(a.call)'
           /\ calls'[a.call].outcome = "rejected" ]_vars

\* a publish (POST) was answered 403 or 404 and is rejected
C8_Witness ==
  /\ Len(emitted) = 1
  /\ emitted[1].status \in {403, 404}
  /\ emitted[1].opts.method = "post"
  /\ \E c \in DOMAIN calls :
       calls[c].kind = "publish" /\ calls[c].outcome = "rejected" /\ ~Pending(c)

IsSendAnswer(s)  == \E a \in inflight, thr \in BOOLEAN : Respond(a, s, thr)
IsFetchAnswer(s) == \E b \in ServerBodies : FetchRespond(s, b)
IsAnswer         == (\E s \in Outcomes : IsSendAnswer(s)) \/ (\E s \in FetchOutcomes : IsFetchAnswer(s))

C10_DisabledNoOp ==
  opts.disabled =>
    /\ ctor = "disabled"
    /\ ret \in {"none", "returned"}
    /\ DOMAIN retries = {}
    /\ inflight = {}
    /\ timers = {}
    /\ calls = << >>
    /\ emitted = << >>
    /\ cfgInflight = 0
    /\ config = NoConfig

\* publish or update has returned on a client constructed disabled without key
C10_Witness ==
  opts.disabled /\ ~opts.key /\ ~opts.secret /\ ret = "returned"

\* C11: once disabled is true no attempt is started, no retry is scheduled or
\* announced and no attempt count grows, while an answer to an attempt already
\* in flight is still processed: a 2xx deletes the record and emits 'response'
C11_DisabledStopsDelivery ==
  [][ disabled =>
        /\ inflight' \subseteq inflight
        /\ timers' \subseteq timers
        /\ \A id \in DOMAIN retries' : HasRecord(retries, id) /\ retries'[id] <= retries[id]
        /\ \A a \in inflight, s \in Outcomes, thr \in BOOLEAN :
              Respond(a, s, thr)
              => /\ a \notin inflight'
                 /\ CountEv(emitted', "retry") = 0
                 /\ Is2xx(s) => /\ ~HasRecord(retries', a.id)
                                /\ CountEv(emitted', "response") = 1
                                /\ calls'[a.call].outcome = "success" ]_vars

\* on a client disabled during delivery a backoff timer has fired and sent nothing
C11_Witness ==
  /\ ctor = "ok" /\ disabled
  /\ \E c \in DOMAIN calls : calls[c].outcome = "dropped"
  /\ inflight = {} /\ timers = {}

\* a segment of a pattern accepts a segment of a name
SegMatches(p, e) == p = e \/ p = "*"
HasStarSegment(topic) == \E i \in DOMAIN topic : topic[i] = "*"
Matched == match.found # NoTopic

C20_AsClaimed ==
  (match.done /\ match.topic[Len(match.topic)] = "**")
  => LET k == Len(match.topic) - 1
     IN Matched <=>
          /\ Len(match.name.segs) >= k + 1
          /\ \A i \in 1..k : SegMatches(match.topic[i], match.name.segs[i])

\* ---- webhook claims: wh is the last call, made on req under config
AuthCall      == wh.op = "authenticate"
HandleCall    == wh.op = "handle"
WasUnmarked   == ~wh.before
\* the call obtained the body as an object
BodyParsed    == wh.ans.readBody /\ req.kind = "parsed"
NextCount     == IF wh.hasNext THEN 1 ELSE 0

\* the credentials of req are right for the auth_type of config
CredentialsRight ==
  \/ /\ config.auth_type = "basic"
     /\ req.authorization.kind = "basic"
     /\ req.authorization.name = config.auth_user
     /\ req.authorization.pass = config.auth_pass
  \/ config.auth_type = "token" /\ req.token = config.auth_token
  \/ /\ config.auth_type = "key_secret"
     /\ req.signature = Hmac(ClientSecret, Stringify(req.body))
  \/ config.auth_type \notin { "basic", "token", "key_secret" }

\* C12: for an unmarked request with a parsed body on a consuming client,
\* authenticateWebhook returns true exactly when the Basic credentials, the
\* token or the body signature fit the configured auth_type, or no known
\* auth_type is configured
C12_AuthDecision ==
  (AuthCall /\ WasUnmarked /\ BodyParsed /\ config.can_consume)
  => (wh.ans.ret = "true" <=> CredentialsRight)

\* under key_secret a request signed for another body was refused
C12_Witness ==
  /\ AuthCall /\ WasUnmarked /\ BodyParsed /\ config.can_consume
  /\ config.auth_type = "key_secret"
  /\ req.signature.key = ClientSecret
  /\ req.signature # Hmac(ClientSecret, Stringify(req.body))
  /\ wh.ans.ret = "false"

\* C13 as stated: with wrong, malformed or missing credentials the call
\* returns false, answers 401 'Unauthorized' when a response object is given,
\* does not invoke next and does not mark the request; it never throws
C13_AsClaimed ==
  (AuthCall /\ WasUnmarked /\ BodyParsed /\ config.can_consume /\ ~CredentialsRight)
  => /\ wh.ans.ret = "false"
     /\ wh.hasRes => (wh.ans.status = 401 /\ wh.ans.message = Unauthorized)
     /\ wh.ans.next = 0
     /\ ~req.marked

\* C14: a successful call marks the request and invokes next once if given;
\* a call on a marked request returns true and invokes next without reading
\* the body, comparing credentials or answering
C14_Idempotent ==
  AuthCall =>
    /\ (WasUnmarked /\ wh.ans.ret = "true") => (req.marked /\ wh.ans.next = NextCount)
    /\ ~WasUnmarked =>
         /\ wh.ans.ret = "true"
         /\ wh.ans.next = NextCount
         /\ ~wh.ans.readBody /\ ~wh.ans.compared
         /\ wh.ans.status = 0
         /\ req.marked

\* a marked request passed again, with next invoked, while the client holds
\* no config any more
C14_Witness ==
  /\ AuthCall /\ ~WasUnmarked /\ wh.hasNext
  /\ wh.ans.ret = "true" /\ wh.ans.next = 1
  /\ config.state = "empty"

C17_AsClaimed ==
  (HandleCall /\ req.marked) => (wh.ans.status = 200 /\ wh.ans.message = Success)

\* T is one of the configured topics or matched by one of them
MatchesConfigured(T) ==
  ~T.pre /\ \E i \in DOMAIN config.topics : TopicMatches(config.topics[i], T.segs)
Notified(T) == \E i \in DOMAIN wh.notified : wh.notified[i].name = EventName(T)

\* C18 as stated: handleWebhook notifies the subscribers of 'event:<T>' exactly
\* when the request is authenticated, its body topic is T and T matches the
\* configured topics, and they receive the request body
C18_AsClaimed ==
  HandleCall =>
    /\ \A T \in BodyTopics \ { NoTopicField } :
          Notified(T) <=> (req.marked /\ req.body.topic = T /\ MatchesConfigured(T))
    /\ \A i \in DOMAIN wh.notified : wh.notified[i].body = req.body

\* the name is the pattern, or the pattern behind the 'event:' prefix
NameIsPattern       == NameText(match.name) = match.topic
NameIsPrefixedPattern == match.name.pre /\ match.name.segs = match.topic

NoWildcardSegment(topic) == \A i \in DOMAIN topic : topic[i] \notin { "*", "**" }

\* C22 as stated: a pattern none of whose segments is exactly '*' or '**'
\* matches a name exactly when the name, without its prefix, is the pattern
C22_AsClaimed ==
  (match.done /\ NoWildcardSegment(match.topic))
  => (Matched <=> match.name.segs = match.topic)

\* the call of hasSubscribedTopic at hand: the name without its prefix, the
\* list it is validated against, and the patterns of that list that match
CalledName == match.name.segs
CalledList ==
  IF match.topics.given THEN match.topics.list
  ELSE IF match.conf.state = "fetched" /\ match.conf.can_consume THEN match.conf.events
  ELSE << >>
Implicit == CalledName \in { << "configured" >>, << "unauthorized" >> }
Matching == { i \in DOMAIN CalledList : TopicMatches(CalledList[i], CalledName) }

\* C23 as stated: hasSubscribedTopic reports a match exactly when the name is
\* an implicit topic or a pattern of the list matches; of several matching
\* patterns the first in list order is the result, and without any the result
\* is null; an omitted list is the configured topics, and the empty list when
\* the client has none
C23_AsClaimed ==
  match.done =>
    /\ ~match.threw
    /\ (match.found # NoTopic) <=> (Implicit \/ Matching # {})
    /\ (~Implicit /\ Matching # {})
         => \E i \in Matching : /\ match.found = CalledList[i]
                                 /\ \A j \in Matching : i <= j

\* the objects of the payload handed to _send
PayloadObjects == IF pub.root = NoRoot THEN {} ELSE Reach(pub.heap, { pub.root })
Retried == \E a \in inflight : Attempts(retries, a.id) >= 2

\* C24: after publish(name, data), and after later retries, every object of
\* the caller's data is as it was, no object of the payload handed to _send is
\* an object of the caller's, the payload has the keys of the data, and every
\* key of it that starts with 'password' or 'creditcard' holds '[HIDDEN]'
C24_NoHarm ==
  pub.done =>
    /\ \A a \in DataAddrs : pub.heap[a] = pub.before[a]
    /\ PayloadObjects \cap DataAddrs = {}
    /\ pub.root # NoRoot => DOMAIN pub.heap[pub.root] = DOMAIN pub.before[DataRoot]
    /\ \A a \in PayloadObjects : \A k \in DOMAIN pub.heap[a] :
          IF SensitiveKey(k) THEN pub.heap[a][k] = Hidden
          ELSE pub.heap[a][k].kind = "str" => pub.heap[a][k] = DataStr("n")

\* data {child: {password: 'p'}} was published and sent a second time: the
\* caller still reads 'p', the payload reads '[HIDDEN]'
C24_Witness ==
  /\ pub.done /\ Retried
  /\ pub.before[DataRoot] = ("child" :> DataRef(DataAddr(2)))
  /\ pub.before[DataAddr(2)] = ("password" :> DataStr("p"))
  /\ pub.heap[DataAddr(2)] = ("password" :> DataStr("p"))
  /\ pub.heap[<< "copy", "child" >>] = ("password" :> Hidden)

\* a config request is answered with status s and config data b
FetchAnswered(s, b) == FetchRespond(s, b)
WellFormed(b) == b.state = "fetched" /\ b.url # UrlInvalid
Usable(conf)  == conf.state = "fetched"

\* C25 as stated: a successful fetch emits 'configured' once, carrying the
\* fetched config that has become the client's; any other answer to a config
\* request emits no 'configured' and leaves the client without a usable config
C25_AsClaimed ==
  [][ \A s \in FetchOutcomes, b \in ServerBodies : FetchAnswered(s, b)
        => IF s = 200 /\ WellFormed(b)
           THEN /\ CountEv(emitted', "configured") = 1
                /\ config' = emitted'[1].cfg
                /\ Usable(config')
           ELSE /\ CountEv(emitted', "configured") = 0
                /\ ~Usable(config') ]_vars

\* C25: the answer 200 with well-formed config data makes that data, with the
\* topics and credentials derived from it, the client's config and emits
\* 'configured' once, carrying it; any other answer to a config request (an
\* error status, no answer, malformed data) emits no 'configured' and leaves
\* the config as it is; nothing else emits 'configured', and a usable config
\* comes from a successful fetch only
C25_Configured ==
  [][ /\ \A s \in FetchOutcomes, b \in ServerBodies : FetchAnswered(s, b)
           => IF s = 200 /\ WellFormed(b)
              THEN /\ CountEv(emitted', "configured") = 1
                   /\ Len(emitted') = 1
                   /\ config' = emitted'[1].cfg
                   /\ config'.events = b.events /\ config'.can_consume = b.can_consume
                   /\ Usable(config')
              ELSE /\ CountEv(emitted', "configured") = 0
                   /\ config' = config
      /\ (\A s \in FetchOutcomes, b \in ServerBodies : ~FetchAnswered(s, b))
           => /\ CountEv(emitted', "configured") = 0
              /\ Usable(config') => config' = config ]_vars

\* on a constructed client a second fetchConfig() was answered after the
\* first: the config is the one fetched, with its topics and the credentials
\* of its url, and 'configured' carried it
C25_Witness ==
  /\ ctor = "ok" /\ fetchCalls = 1 /\ cfgInflight = 0
  /\ Len(emitted) = 1 /\ emitted[1].ev = "configured" /\ emitted[1].cfg = config
  /\ config.topics = EventsMap /\ config.auth_user = "un"

\* the timers set and the requests issued by the step at hand
NewTimers   == timers' \ timers
NewAttempts == inflight' \ inflight
RetryEmitted == CountEv(emitted', "retry")

C27_AsClaimed ==
  /\ batch.option = BatchingOff => (batch.queue = << >> /\ batch.timer = 0)
  /\ (batch.option.kind = "object" /\ batch.timer # 0) => batch.timer = batch.option.maxWait

\* C28 as stated: every id in the retry table has an attempts count of at
\* least 1 and at most the retry limit
C28_AsClaimed ==
  \A id \in DOMAIN retries : retries[id] >= 1 /\ retries[id] <= RetryLimit

\* an id is Sending while a request for it is out, RetryScheduled while a
\* timer for it is pending
Sending(id)        == \E a \in inflight : a.id = id
RetryScheduled(id) == \E t \in timers : t.id = id

\* C29 as stated: the retry table holds only ids of events that are Sending
\* or RetryScheduled; the record of a rejected or abandoned event is removed
C29_AsClaimed ==
  \A id \in DOMAIN retries : Sending(id) \/ RetryScheduled(id)

\* C30 as stated: every retry that is scheduled waits
\* max(500, (2^attempts - 1) * 500) ms, attempts being the count the retry
\* table holds for the id, a number of 500 at least
C30_AsClaimed ==
  [][ \A t \in NewTimers :
        /\ HasRecord(retries', t.id)
        /\ t.delay # NaN
        /\ t.delay >= 500
        /\ t.delay = Max(500, (Pow2(Attempts(retries', t.id)) - 1) * 500) ]_vars

\* the attempts of event id that are outstanding: requests awaiting their
\* answer and backoff timers not yet fired
OutstandingCount(id) ==
  Cardinality({ a \in inflight : a.id = id }) + Cardinality({ t \in timers : t.id = id })

KnownIds == { calls[c].id : c \in DOMAIN calls }

\* C31: in every reachable state every event id has at most one outstanding
\* attempt, counting the requests in flight and the pending backoff timers
C31_AsClaimed ==
  \A id \in KnownIds : OutstandingCount(id) <= 1

\* what the client holds for event id: its record, its requests in flight
\* and its backoff timers
Held(R, F, T, id) ==
  [ attempts |-> Attempts(R, id),
    inflight |-> { a \in F : a.id = id },
    timers   |-> { t \in T : t.id = id } ]

StepIds ==
  DOMAIN retries \cup DOMAIN retries' \cup { a.id : a \in inflight \cup inflight' }
    \cup { t.id : t \in timers \cup timers' }

\* the ids a step touches
ChangedIds ==
  { id \in StepIds :
      Held(retries, inflight, timers, id) # Held(retries', inflight', timers', id) }

\* the calls whose outcome a step settles
ChangedCalls ==
  { c \in DOMAIN calls : calls'[c].outcome # calls[c].outcome }

\* C32: every step of the delivery engine touches one event id only: the
\* record, the attempt count, the requests in flight and the backoff timers
\* (with their delay and due time) of every other id are left as they were,
\* the outcome of no call of another id changes, and the delay of a retry
\* being scheduled is computed from the count of its own id
C32_Independence ==
  [][ /\ Cardinality(ChangedIds) <= 1
      /\ \A c \in ChangedCalls : calls[c].id \in ChangedIds
      /\ \A t \in timers' \ timers :
            t.delay = RetryDelay((t.id :> Attempts(retries', t.id)), t.id)
              \/ ~HasRecord(retries', t.id) ]_vars

\* two events of different ids were under way, one was rejected for good and
\* the other is still being delivered: its retry is scheduled
C32_Witness ==
  /\ Len(calls) = 2
  /\ calls[1].id # calls[2].id
  /\ calls[1].outcome = "rejected"
  /\ calls[2].outcome = "none"
  /\ \E t \in timers : t.id = calls[2].id /\ t.call = 2
  /\ Attempts(retries, calls[2].id) = 1
  /\ Attempts(retries, calls[1].id) = 1

\* this.config is a snapshot the .then handler of fetchConfig installed
Snapshot(conf) == conf.state = "fetched"

\* C33: once a config was fetched, what a reader finds in this.config is
\* always a fetched snapshot: no step, a refresh being started, in flight or
\* failed included, puts anything else there
C33_AsClaimed ==
  [][ Snapshot(config) => Snapshot(config') ]_vars

\* a step in which 'configured' fires
ConfiguredFires ==
  /\ cfgInflight' = cfgInflight - 1
  /\ CountEv(emitted', "configured") = 1

Times(seq, n) == Cardinality({ i \in DOMAIN seq : seq[i] = n })
TimesChecked(seq, n) == Cardinality({ i \in DOMAIN seq : seq[i].name = n })

\* C34: when 'configured' fires, each name queued by on() is validated
\* once for each time it was queued, and the queue is empty afterwards, so
\* that a later refresh validates none of them again
C34_AsClaimed ==
  [][ ConfiguredFires =>
        /\ \A i \in DOMAIN subs.pending :
              TimesChecked(subs'.checked, subs.pending[i]) = Times(subs.pending, subs.pending[i])
        /\ subs'.pending = << >> ]_vars

\* a step that is a call of on(): the name it was called with
OnStep == Len(subs'.handlers) = Len(subs.handlers) + 1
OnName == subs'.handlers[Len(subs'.handlers)]

\* C35: on(name, handler) registers the handler; with a fetched config in
\* place it validates the name at once and queues nothing, without one it
\* queues the name and validates nothing; no step removes a subscription
C35_AsClaimed ==
  [][ /\ OnStep =>
            /\ subs'.handlers = Append(subs.handlers, OnName)
            /\ IF Snapshot(config)
               THEN /\ subs'.checked = << ValidateTopic(OnName, config) >>
                    /\ subs'.pending = subs.pending
               ELSE /\ subs'.checked = << >>
                    /\ subs'.pending = Append(subs.pending, OnName)
      /\ ~OnStep => subs'.handlers = subs.handlers ]_vars

\* C36: the sanitized graph holds no reference cycle, through the root
\* object or elsewhere
C36_AsClaimed ==
  pub.done => ~Cyclic(pub.heap, pub.root)

\* C37: once an attempt of a call was answered 2xx nothing is under way
\* for it any more: no request in flight and no backoff timer, a throwing
\* 'response' listener notwithstanding
C37_AsClaimed ==
  \A c \in DOMAIN calls : calls[c].outcome = "success" => ~Pending(c)

\* C38: under auth_type 'token' an unmarked request without an x-auth-token
\* header is not authenticated, whatever else the config holds
C38_AsClaimed ==
  (wh.op # "none" /\ WasUnmarked /\ config.auth_type = "token" /\ req.token = Absent)
  => (wh.ans.ret # "true" /\ ~req.marked)

\* C39: handleWebhook on a request whose body is parsed already or whose
\* stream ends writes one response: 400 for a body that cannot be read or a
\* client that may not consume, 401 for failed authentication, 200 otherwise,
\* a body that parses to a falsy value included
C39_AsClaimed ==
  [][ (wh'.op = "handle" /\ req.kind \in BodyKinds)
      => \/ wh'.ans.status = 400 /\ wh'.ans.message \in { BodyError, NotConsumer }
         \/ wh'.ans.status = 401 /\ wh'.ans.message = Unauthorized
         \/ wh'.ans.status = 200 /\ wh'.ans.message = Success ]_vars

\* the events publish accepted so far, in the order of the calls
Staged(b) == b.sent \o b.queue

\* C40: publish adds its event at the end of what was staged and nothing
\* else changes that sequence, so no event is lost, doubled or reordered;
\* every flush hands the whole queue to _send in order and leaves it empty;
\* at most one flush timeout is pending, and one is pending whenever an
\* event waits in the queue
C40_StagedOnce ==
  [][ /\ \/ Staged(batch') = Staged(batch)
         \/ \E n \in StagedNames :
               /\ Staged(batch') = Append(Staged(batch), n)
               /\ batch'.queue = Append(batch.queue, n)
               /\ batch'.sent = batch.sent
      /\ (batch'.sent # batch.sent \/ batch'.pending < batch.pending)
           => /\ batch'.sent = batch.sent \o batch.queue
              /\ batch'.queue = << >>
      /\ batch'.pending <= 1
      /\ batch'.queue # << >> => batch'.pending = 1 ]_vars

\* two events went out with one flush in the order they were published, and
\* a third one, published after that flush, waits for the next
C40_Witness ==
  /\ batch.sent = << "a", "b" >>
  /\ batch.queue = << "a" >>
  /\ batch.pending = 1
====
